---- MODULE Spec2Model ----
(***************************************************************************)
(* Model of the summarization orchestrator of youtube2obsidian             *)
(* (src/main.ts): summarizeTranscript, its fallback recursiveSummarize,    *)
(* the chunk-splitting loop and the per-chunk / final-combine requests.    *)
(*                                                                         *)
(* A transcript is a string; the model keeps its length and the places of  *)
(* its sentence terminators ('.' followed by ' '), every other character   *)
(* being a letter.  The language-model service is the environment: each    *)
(* awaited request is answered by one response drawn from Responses.       *)
(***************************************************************************)
EXTENDS Integers, Sequences, FiniteSets

(***************************************************************************)
(* Bounds of the model.                                                    *)
(***************************************************************************)
\* short transcripts have 0..MaxShortLen characters and no terminator
MaxShortLen == 2
\* the long transcripts have LongLen characters
LongLen == 250
\* at most MaxTerms sentence terminators in a long transcript
MaxTerms == 2
\* a transcript shorter than two search windows
MidLen == 180
\* a transcript just above the size of one chunk (tokenLimit * charsPerToken)
HugeLen == 48001
\* a transcript of two chunks of the full size
BudgetLen == 96000
\* the reported token counts range up to MaxHintChunks * tokenLimit + 1
MaxHintChunks == 2
\* the chunks array is followed up to MaxChunks elements; a splitting loop
\* that has filled it and is still running is one that has not ended
MaxChunks == 6
\* a batch holds at most MaxVideos video ids
MaxVideos == 2
\* the summarize command is triggered at most MaxRuns times
MaxRuns == 2
\* the summarization of one video issues at most MaxRequestsPerVideo requests
MaxRequestsPerVideo == 2

(***************************************************************************)
(* Program constants.                                                      *)
(***************************************************************************)
tokenLimit == 12000
charsPerToken == 4
searchWindow == 100
\* ceiling of the output-length budget of a chunk request
chunkTokenCeiling == 2000
\* requestedTokens === undefined
Undefined == -1

Max(a, b) == IF a >= b THEN a ELSE b
Min(a, b) == IF a <= b THEN a ELSE b
\* Math.ceil(a / b) for a >= 0, b > 0
CeilDiv(a, b) == (a + b - 1) \div b

(***************************************************************************)
(* Transcripts.                                                            *)
(***************************************************************************)
\* places where a '.' may stand in a long transcript (the ' ' follows it)
TermPlaces == {30, 81, 130, 200, 248}
\* the same for the transcripts of MidLen and of HugeLen characters
MidTermPlaces == {150}
HugeTermPlaces == {24050}
BudgetTermPlaces == {48050}

Transcripts ==
    { [len |-> n, terms |-> {}] : n \in 0..MaxShortLen }
    \cup { [len |-> LongLen, terms |-> T] :
             T \in { S \in SUBSET TermPlaces : Cardinality(S) <= MaxTerms } }
    \cup { [len |-> MidLen, terms |-> T] : T \in SUBSET MidTermPlaces }
    \cup { [len |-> HugeLen, terms |-> T] : T \in SUBSET HugeTermPlaces }
    \cup { [len |-> BudgetLen, terms |-> T] : T \in SUBSET BudgetTermPlaces }

\* transcript[i], 0-based
CharAt(t, k) ==
    IF k \in t.terms THEN "."
    ELSE IF (k - 1) \in t.terms THEN " "
    ELSE "a"

IsTerminator(c) == c \in {".", "!", "?"}
IsSpace(c) == c \in {" "}

\* String.prototype.slice index normalisation
SliceIndex(n, len) == IF n < 0 THEN Max(len + n, 0) ELSE Min(n, len)

\* number of whitespace characters from k on, inside [k, to)
RECURSIVE SpaceRun(_, _, _)
SpaceRun(t, k, to) ==
    IF k < to /\ IsSpace(CharAt(t, k)) THEN 1 + SpaceRun(t, k + 1, to) ELSE 0

\* starts of the matches of /[.!?]\s+/g in transcript.slice(from, to)
MatchStarts(t, from, to) ==
    { p \in from..(to - 2) : IsTerminator(CharAt(t, p)) /\ IsSpace(CharAt(t, p + 1)) }

SetMax(S) == CHOOSE x \in S : \A y \in S : y <= x

\* endPosition moved behind the last sentence terminator of searchText
SnapEnd(t, endPos, from, to) ==
    LET p == SetMax(MatchStarts(t, from, to))
        matchIndex == p - from
        matchLength == 1 + SpaceRun(t, p + 1, to)
    IN  endPos - searchWindow + matchIndex + matchLength

\* endPosition of the chunk that starts at currentPosition
EndPosition(t, cur, size) ==
    LET endPos == Min(cur + size, t.len)
        from == SliceIndex(endPos - searchWindow, t.len)
        to == SliceIndex(endPos + searchWindow, t.len)
    IN  IF endPos < t.len /\ MatchStarts(t, from, to) # {}
        THEN SnapEnd(t, endPos, from, to)
        ELSE endPos

\* number of whitespace characters from k down, inside [from, k]
RECURSIVE SpaceRunBack(_, _, _)
SpaceRunBack(t, k, from) ==
    IF k >= from /\ IsSpace(CharAt(t, k)) THEN 1 + SpaceRunBack(t, k - 1, from) ELSE 0

\* transcript.slice(from, to).trim().length
TrimmedLength(t, from, to) ==
    LET lead == SpaceRun(t, from, to)
    IN  IF to - from <= lead THEN 0
        ELSE to - from - lead - SpaceRunBack(t, to - 1, from)

NumChunks_hintOnly(len, requested) ==
    IF requested # Undefined /\ requested # 0
    THEN CeilDiv(requested, tokenLimit) ELSE 1
\* numChunks of recursiveSummarize
NumChunks(len, requested) ==
    Max(CeilDiv(len, charsPerToken * tokenLimit),
        IF requested # Undefined /\ requested # 0
        THEN CeilDiv(requested, tokenLimit) ELSE 1)

(***************************************************************************)
(* Responses of the language-model service.                                *)
(***************************************************************************)
Contents ==
    {"", "s1", "s2", "No summary available",
     "Please provide the video transcript", "Failed to generate summary"}

\* summary.includes("Please provide the video transcript")
IncludesPleaseProvide(c) == c \in {"Please provide the video transcript"}

Hints ==
    {Undefined, 0}
    \cup { k * tokenLimit : k \in 1..MaxHintChunks }
    \cup { k * tokenLimit + 1 : k \in 1..MaxHintChunks }

Ok(c) == [kind |-> "ok", content |-> c, requested |-> Undefined]
\* kind "tooLarge": an Error whose message includes 'Request too large',
\* with 'Requested <n>' when requested # Undefined; "generic": another Error;
\* "nonError": a thrown value that is not an Error
Err(k, r) == [kind |-> k, content |-> "", requested |-> r]

Errors == { Err(k, Undefined) : k \in {"generic", "nonError", "tooLarge"} }
\* answers to a chunk request: the code only tests the content for emptiness
ChunkContents == {"", "s1", "s2"}
ChunkResponses == { Ok(c) : c \in ChunkContents } \cup Errors
\* answers to the final combine request
CombineResponses == { Ok(c) : c \in Contents } \cup Errors
\* answers to the single-shot request
Responses == CombineResponses \cup { Err("tooLarge", r) : r \in Hints }

\* values of settings.maxTokens: any number the settings tab accepts
MaxTokensValues == {500, 5000}

(***************************************************************************)
(* decodeHtmlEntities.  A text is a sequence of characters.                *)
(***************************************************************************)
\* the texts are concatenations of at most MaxPieces pieces
MaxPieces == 3
Pieces ==
    { <<"&", "a", "m", "p", ";">>, <<"&", "l", "t", ";">>, <<"&">>, <<";">>, <<"a">>,
      <<"#", "3", "9", ";">>, <<"#", "x", "2", "7", ";">>, <<"#", "3", "4", ";">>, <<"#", "x", "2", "2", ";">>, <<"#", "3", "8", ";">>, <<"a", "p", "o", "s", ";">>, <<"q", "u", "o", "t", ";">> }

RECURSIVE Flatten(_)
Flatten(f) == IF f = <<>> THEN <<>> ELSE f[1] \o Flatten(SubSeq(f, 2, Len(f)))

DecodeInputs ==
    UNION { { Flatten(f) : f \in [1..n -> Pieces] } : n \in 0..MaxPieces }

Digits == {"0", "1", "2", "3", "4", "5", "6", "7", "8", "9"}
HexDigits == Digits \cup {"a", "b", "c", "d", "e", "f"}
DigitValue(c) ==
    CASE c = "0" -> 0 [] c = "1" -> 1 [] c = "2" -> 2 [] c = "3" -> 3
      [] c = "4" -> 4 [] c = "5" -> 5 [] c = "6" -> 6 [] c = "7" -> 7
      [] c = "8" -> 8 [] c = "9" -> 9 [] c = "a" -> 10 [] c = "b" -> 11
      [] c = "c" -> 12 [] c = "d" -> 13 [] c = "e" -> 14 [] c = "f" -> 15

\* parseInt(digits, base)
RECURSIVE ParseInt(_, _)
ParseInt(ds, base) ==
    IF ds = <<>> THEN 0
    ELSE ParseInt(SubSeq(ds, 1, Len(ds) - 1), base) * base + DigitValue(ds[Len(ds)])

\* String.fromCharCode(n), for the codes the texts can hold
FromCharCode(n) ==
    CASE n = 34 -> "\"" [] n = 38 -> "&" [] n = 39 -> "'"
      [] n = 60 -> "<" [] n = 62 -> ">" [] OTHER -> "?"

StartsWith(s, k, pat) ==
    /\ k + Len(pat) - 1 <= Len(s)
    /\ SubSeq(s, k, k + Len(pat) - 1) = pat

\* number of characters of the set S from s[k] on
RECURSIVE Run(_, _, _)
Run(s, k, S) == IF k <= Len(s) /\ s[k] \in S THEN 1 + Run(s, k + 1, S) ELSE 0

\* length of the match of  prefix S+ ';'  at s[k], 0 when there is none
NumericRefLen(s, k, prefix, S) ==
    LET n == Run(s, k + Len(prefix), S)
        e == k + Len(prefix) + n
    IN  IF StartsWith(s, k, prefix) /\ n > 0 /\ e <= Len(s) /\ s[e] = ";"
        THEN Len(prefix) + n + 1 ELSE 0
\* the number the match holds
NumericRefCode(s, k, prefix, S, base) ==
    LET n == Run(s, k + Len(prefix), S)
    IN  ParseInt(SubSeq(s, k + Len(prefix), k + Len(prefix) + n - 1), base)

DecPrefix == <<"&", "#">>
HexPrefix == <<"&", "#", "x">>

\* named character references of the HTML entity table
NamedRefs ==
    { [name |-> <<"&", "a", "m", "p", ";">>, char |-> "&"],
      [name |-> <<"&", "l", "t", ";">>, char |-> "<"],
      [name |-> <<"&", "g", "t", ";">>, char |-> ">"],
      [name |-> <<"&", "q", "u", "o", "t", ";">>, char |-> "\""],
      [name |-> <<"&", "a", "p", "o", "s", ";">>, char |-> "'"] }
NamedRefAt(s, k) == { e \in NamedRefs : StartsWith(s, k, e.name) }

\* textarea.innerHTML = f; textarea.value: the character references of f
\* are resolved, the rest is kept
RECURSIVE HtmlDecode(_, _)
HtmlDecode(f, k) ==
    IF k > Len(f) THEN <<>>
    ELSE IF NamedRefAt(f, k) # {}
    THEN LET e == CHOOSE e \in NamedRefAt(f, k) : TRUE
         IN  <<e.char>> \o HtmlDecode(f, k + Len(e.name))
    ELSE IF NumericRefLen(f, k, HexPrefix, HexDigits) > 0
    THEN <<FromCharCode(NumericRefCode(f, k, HexPrefix, HexDigits, 16))>>
         \o HtmlDecode(f, k + NumericRefLen(f, k, HexPrefix, HexDigits))
    ELSE IF NumericRefLen(f, k, DecPrefix, Digits) > 0
    THEN <<FromCharCode(NumericRefCode(f, k, DecPrefix, Digits, 10))>>
         \o HtmlDecode(f, k + NumericRefLen(f, k, DecPrefix, Digits))
    ELSE <<f[k]>> \o HtmlDecode(f, k + 1)

\* length of the match of /&([^;]+);/ at s[k], 0 when there is none
EntityMatchLen(s, k) ==
    LET n == Run(s, k + 1, { s[j] : j \in 1..Len(s) } \ {";"})
    IN  IF s[k] = "&" /\ n > 0 /\ k + 1 + n <= Len(s) THEN n + 2 ELSE 0

\* first pass: text.replace(/&([^;]+);/g, match => decoded by the textarea)
RECURSIVE NamedPass(_, _)
NamedPass(s, k) ==
    IF k > Len(s) THEN <<>>
    ELSE IF EntityMatchLen(s, k) > 0
    THEN HtmlDecode(SubSeq(s, k, k + EntityMatchLen(s, k) - 1), 1)
         \o NamedPass(s, k + EntityMatchLen(s, k))
    ELSE <<s[k]>> \o NamedPass(s, k + 1)

\* second and third pass: replace(/&#(\d+);/g, ...), replace(/&#x([0-9a-f]+);/gi, ...)
RECURSIVE NumericPass(_, _, _, _, _)
NumericPass(s, k, prefix, S, base) ==
    IF k > Len(s) THEN <<>>
    ELSE IF NumericRefLen(s, k, prefix, S) > 0
    THEN <<FromCharCode(NumericRefCode(s, k, prefix, S, base))>>
         \o NumericPass(s, k + NumericRefLen(s, k, prefix, S), prefix, S, base)
    ELSE <<s[k]>> \o NumericPass(s, k + 1, prefix, S, base)

\* length of the match of  prefix 0* digits ';'  at s[k], 0 when there is none
PaddedRefLen(s, k, prefix, digits) ==
    LET z == Run(s, k + Len(prefix), {"0"})
    IN  IF StartsWith(s, k, prefix)
           /\ StartsWith(s, k + Len(prefix) + z, digits \o <<";">>)
        THEN Len(prefix) + z + Len(digits) + 1 ELSE 0

\* length of the match of /name|&#0*dec;|&#x0*hex;/ at s[k]
QuoteMatchLen(s, k, name, dec, hex) ==
    IF StartsWith(s, k, name) THEN Len(name)
    ELSE IF PaddedRefLen(s, k, DecPrefix, dec) > 0 THEN PaddedRefLen(s, k, DecPrefix, dec)
    ELSE PaddedRefLen(s, k, HexPrefix, hex)

\* one replace of the fourth pass
RECURSIVE QuotePass(_, _, _, _, _, _)
QuotePass(s, k, name, dec, hex, char) ==
    IF k > Len(s) THEN <<>>
    ELSE IF QuoteMatchLen(s, k, name, dec, hex) > 0
    THEN <<char>> \o QuotePass(s, k + QuoteMatchLen(s, k, name, dec, hex), name, dec, hex, char)
    ELSE <<s[k]>> \o QuotePass(s, k + 1, name, dec, hex, char)

\* .replace(/&amp;/gi, '&')
RECURSIVE AmpPass(_, _)
AmpPass(s, k) ==
    IF k > Len(s) THEN <<>>
    ELSE IF StartsWith(s, k, <<"&", "a", "m", "p", ";">>)
    THEN <<"&">> \o AmpPass(s, k + 5)
    ELSE <<s[k]>> \o AmpPass(s, k + 1)

\* fourth pass: apostrophes, quotes, ampersands
FourthPass(s) ==
    AmpPass(
        QuotePass(
            QuotePass(s, 1, <<"&", "a", "p", "o", "s", ";">>, <<"3", "9">>, <<"2", "7">>, "'"),
            1, <<"&", "q", "u", "o", "t", ";">>, <<"3", "4">>, <<"2", "2">>, "\""),
        1)

decodeHtmlEntities_firstPassOnly(text) == NamedPass(text, 1)
decodeHtmlEntities(text) ==
    FourthPass(
        NumericPass(
            NumericPass(NamedPass(text, 1), 1, DecPrefix, Digits, 10),
            1, HexPrefix, HexDigits, 16))

(***************************************************************************)
(* cleanTranscript.                                                        *)
(***************************************************************************)
\* the caption texts are concatenations of at most MaxWords pieces
MaxWords == 3
CaptionPieces ==
    { <<"t", "h", "e", " ">>,
      <<"T", "h", "e", " ">>,
      <<"t", "h", "e", ".", " ">>,
      <<"c", "a", "t", " ">>,
      <<"u", "m", " ">>,
      <<"s", "o", " ">>,
      <<"y", "o", "u", " ">>,
      <<"k", "n", "o", "w", " ">>,
      <<"i", " ">>,
      <<"m", "e", "a", "n", " ">>,
      <<"1", ":", "2", "3", " ">>,
      <<"A", ".", " ">> }
CleanInputs ==
    UNION { { Flatten(f) : f \in [1..n -> CaptionPieces] } : n \in 0..MaxWords }

LowerCase ==
    <<"a", "b", "c", "d", "e", "f", "g", "h", "i", "j", "k", "l", "m",
      "n", "o", "p", "q", "r", "s", "t", "u", "v", "w", "x", "y", "z">>
UpperCase ==
    <<"A", "B", "C", "D", "E", "F", "G", "H", "I", "J", "K", "L", "M",
      "N", "O", "P", "Q", "R", "S", "T", "U", "V", "W", "X", "Y", "Z">>
IsLower(c) == \E n \in 1..26 : LowerCase[n] = c
\* [A-Z]
IsUpper(c) == \E n \in 1..26 : UpperCase[n] = c
ToUpperCase(c) ==
    IF IsLower(c) THEN UpperCase[CHOOSE n \in 1..26 : LowerCase[n] = c] ELSE c
ToLowerCase(c) ==
    IF IsUpper(c) THEN LowerCase[CHOOSE n \in 1..26 : UpperCase[n] = c] ELSE c
LowerText(s) == [n \in 1..Len(s) |-> ToLowerCase(s[n])]

\* \w, \s and [.,!?]
IsWordChar(c) == IsLower(c) \/ IsUpper(c) \/ c \in Digits \/ c = "_"
WordChars ==
    { LowerCase[n] : n \in 1..26 } \cup { UpperCase[n] : n \in 1..26 } \cup Digits \cup {"_"}
White == {" ", "\n", "\t"}
Punct == {".", ",", "!", "?"}
IsPunct(c) == c \in Punct

\* \b between s[k - 1] and s[k]
WordBoundary(s, k) ==
    (k > 1 /\ k - 1 <= Len(s) /\ IsWordChar(s[k - 1]))
        # (k >= 1 /\ k <= Len(s) /\ IsWordChar(s[k]))

\* length of the match of /\[\d+:\d+\]/ (open "[", close "]"), of
\* /\(\d+:\d+\)/ or of /\d+:\d+/ (open and close empty) at s[k]
TimestampLen(s, k, open, close) ==
    LET a == k + Len(open)
        d1 == Run(s, a, Digits)
        d2 == Run(s, a + d1 + 1, Digits)
        e == a + d1 + 1 + d2
    IN  IF StartsWith(s, k, open) /\ d1 > 0 /\ a + d1 <= Len(s) /\ s[a + d1] = ":"
           /\ d2 > 0 /\ StartsWith(s, e, close)
        THEN Len(open) + d1 + 1 + d2 + Len(close) ELSE 0

\* length of the match of /\b(\w+)[.,!?]?\s+\1\b/i at s[k]
RepeatLen(s, k) ==
    LET w == Run(s, k, WordChars)
        p == IF k + w <= Len(s) /\ IsPunct(s[k + w]) THEN 1 ELSE 0
        g == Run(s, k + w + p, White)
        b == k + w + p + g
    IN  IF WordBoundary(s, k) /\ w > 0 /\ g > 0
           /\ b + w - 1 <= Len(s)
           /\ LowerText(SubSeq(s, b, b + w - 1)) = LowerText(SubSeq(s, k, k + w - 1))
           /\ WordBoundary(s, b + w)
        THEN w + p + g + w ELSE 0

\* the filler vocabulary
Fillers ==
    { <<"u", "m">>, <<"u", "h">>, <<"l", "i", "k", "e">>, <<"s", "o">>,
      <<"y", "o", "u", " ", "k", "n", "o", "w">>, <<"i", " ", "m", "e", "a", "n">>,
      <<"b", "a", "s", "i", "c", "a", "l", "l", "y">>,
      <<"a", "c", "t", "u", "a", "l", "l", "y">>,
      <<"l", "i", "t", "e", "r", "a", "l", "l", "y">>,
      <<"r", "i", "g", "h", "t">>, <<"o", "k", "a", "y">>, <<"w", "e", "l", "l">> }
\* the fillers that stand at s[k] as a whole word or phrase
FillersAt(s, k) ==
    { f \in Fillers :
        /\ WordBoundary(s, k)
        /\ k + Len(f) - 1 <= Len(s)
        /\ LowerText(SubSeq(s, k, k + Len(f) - 1)) = f
        /\ WordBoundary(s, k + Len(f)) }
\* length of the match of /\b(um|uh|...|well)\b\s*/i at s[k]
FillerLen(s, k) ==
    IF FillersAt(s, k) = {} THEN 0
    ELSE LET f == CHOOSE f \in FillersAt(s, k) : TRUE
         IN  Len(f) + Run(s, k + Len(f), White)

\* positions of the second and third letter of a match of
\* /\b([A-Z])\.\s*([A-Z])\.\s*([A-Z])\./ at s[k]
AcronymSecond(s, k) == k + 2 + Run(s, k + 2, White)
AcronymThird(s, k) == AcronymSecond(s, k) + 2 + Run(s, AcronymSecond(s, k) + 2, White)
AcronymLen(s, k) ==
    LET b == AcronymSecond(s, k)
        c == AcronymThird(s, k)
    IN  IF WordBoundary(s, k) /\ c + 1 <= Len(s)
           /\ IsUpper(s[k]) /\ s[k + 1] = "."
           /\ IsUpper(s[b]) /\ s[b + 1] = "."
           /\ IsUpper(s[c]) /\ s[c + 1] = "."
        THEN c + 2 - k ELSE 0

\* length of the match of /\s*([.,!?])\s*/ at s[k]
PunctSpacingLen(s, k) ==
    LET g == Run(s, k, White)
    IN  IF k + g <= Len(s) /\ IsPunct(s[k + g])
        THEN g + 1 + Run(s, k + g + 1, White) ELSE 0

\* length of the match of /(\w)\s+([A-Z])/ at s[k]
SentenceEndLen(s, k) ==
    LET g == Run(s, k + 1, White)
    IN  IF IsWordChar(s[k]) /\ g > 0 /\ k + 1 + g <= Len(s) /\ IsUpper(s[k + 1 + g])
        THEN g + 2 ELSE 0

\* length of the match of the pattern of a replace call at s[k], 0 for none
MatchLen(pass, s, k) ==
    CASE pass = "whitespace" -> Run(s, k, White)
      [] pass = "bracketTimestamp" -> TimestampLen(s, k, <<"[">>, <<"]">>)
      [] pass = "parenTimestamp" -> TimestampLen(s, k, <<"(">>, <<")">>)
      [] pass = "timestamp" -> TimestampLen(s, k, <<>>, <<>>)
      [] pass = "repeated" -> RepeatLen(s, k)
      [] pass = "filler" -> FillerLen(s, k)
      [] pass = "acronym" -> AcronymLen(s, k)
      [] pass = "punctuation" ->
            IF IsPunct(s[k]) /\ Run(s, k, Punct) >= 2 THEN Run(s, k, Punct) ELSE 0
      [] pass = "punctSpacing" -> PunctSpacingLen(s, k)
      [] pass = "sentenceEnd" -> SentenceEndLen(s, k)
      [] pass = "capitalI" ->
            IF s[k] = "i" /\ WordBoundary(s, k) /\ WordBoundary(s, k + 1) THEN 1 ELSE 0
      [] pass = "periodSpace" ->
            IF s[k] = "." /\ Run(s, k + 1, White) > 0 THEN 1 + Run(s, k + 1, White) ELSE 0
      [] pass = "doublePeriod" -> IF StartsWith(s, k, <<".", ".">>) THEN 2 ELSE 0

\* what the replace call puts in the place of the match at s[k]
Replacement(pass, s, k) ==
    CASE pass = "whitespace" -> <<" ">>
      [] pass \in {"bracketTimestamp", "parenTimestamp", "timestamp", "filler"} -> <<>>
      [] pass = "repeated" -> SubSeq(s, k, k + Run(s, k, WordChars) - 1)
      [] pass = "acronym" -> <<s[k], s[AcronymSecond(s, k)], s[AcronymThird(s, k)]>>
      [] pass = "punctuation" -> <<s[k]>>
      [] pass = "punctSpacing" -> <<s[k + Run(s, k, White)], " ">>
      [] pass = "sentenceEnd" -> <<s[k], ".", " ", s[k + MatchLen(pass, s, k) - 1]>>
      [] pass = "capitalI" -> <<"I">>
      [] pass = "periodSpace" -> <<".", " ">>
      [] pass = "doublePeriod" -> <<".">>

\* String.prototype.replace with a global pattern, from s[k] on
RECURSIVE Replace(_, _, _)
Replace(pass, s, k) ==
    IF k > Len(s) THEN <<>>
    ELSE IF MatchLen(pass, s, k) > 0
    THEN Replacement(pass, s, k) \o Replace(pass, s, k + MatchLen(pass, s, k))
    ELSE <<s[k]>> \o Replace(pass, s, k + 1)

\* String.prototype.trim
RECURSIVE RunBack(_, _, _)
RunBack(s, k, S) == IF k >= 1 /\ s[k] \in S THEN 1 + RunBack(s, k - 1, S) ELSE 0
Trim(s) ==
    IF Run(s, 1, White) = Len(s) THEN <<>>
    ELSE SubSeq(s, 1 + Run(s, 1, White), Len(s) - RunBack(s, Len(s), White))

\* s.split(/[.!?]\s+/), from s[k] on; from is the start of the current piece
RECURSIVE Split(_, _, _)
Split(s, from, k) ==
    IF k > Len(s) THEN <<SubSeq(s, from, Len(s))>>
    ELSE IF s[k] \in {".", "!", "?"} /\ Run(s, k + 1, White) > 0
    THEN <<SubSeq(s, from, k - 1)>>
         \o Split(s, k + 1 + Run(s, k + 1, White), k + 1 + Run(s, k + 1, White))
    ELSE Split(s, from, k + 1)

\* /^[A-Z]+$/.test(sentence.split(' ')[0])
FirstWordIsUpper(s) ==
    LET n == Run(s, 1, { s[j] : j \in 1..Len(s) } \ {" "})
    IN  n > 0 /\ \A j \in 1..n : IsUpper(s[j])

\* the callback of the map over the sentences
Sentence(x) ==
    LET s == Trim(x)
    IN  IF s = <<>> THEN <<>>
        ELSE IF FirstWordIsUpper(s) THEN s
        ELSE <<ToUpperCase(s[1])>> \o SubSeq(s, 2, Len(s))

\* parts.join('. ')
RECURSIVE Join(_)
Join(parts) ==
    IF Len(parts) = 0 THEN <<>>
    ELSE IF Len(parts) = 1 THEN parts[1]
    ELSE parts[1] \o <<".", " ">> \o Join(SubSeq(parts, 2, Len(parts)))

\* the chain of replace calls on the decoded text, up to the first trim
FixArtifacts(s) ==
    Trim(
        Replace("capitalI",
            Replace("sentenceEnd",
                Replace("punctSpacing",
                    Replace("punctuation",
                        Replace("acronym",
                            Replace("filler",
                                Replace("repeated", s, 1), 1), 1), 1), 1), 1), 1))

RemoveTimestamps(s) ==
    Replace("timestamp",
        Replace("parenTimestamp",
            Replace("bracketTimestamp", s, 1), 1), 1)

Capitalize(s) ==
    LET parts == Split(s, 1, 1)
    IN  Trim(Join([n \in 1..Len(parts) |-> Sentence(parts[n])]))

FinalCleanup(s) == Trim(Replace("doublePeriod", Replace("periodSpace", s, 1), 1))

cleanTranscript(text) ==
    FinalCleanup(
        Capitalize(
            FixArtifacts(
                RemoveTimestamps(
                    Replace("whitespace", decodeHtmlEntities(text), 1)))))

NoError == [origin |-> "none", kind |-> "none"]
NoResult == "<none>"

VARIABLES
    openai,                 \* this.openai is set
    maxTokens,              \* this.settings.maxTokens
    pc,                     \* where the call stands
    transcript,             \* argument of summarizeTranscript
    requestedTokens,        \* argument of recursiveSummarize
    numChunks,
    approximateChunkSize,
    currentPosition,
    chunks,                 \* spans [from, to) pushed by the splitting loop
    i,                      \* index of the chunk loop
    summaries,
    requests,               \* requests issued to the service, in order
    responses,              \* responses received, in order
    delays,                 \* pacing delays elapsed
    result,                 \* value the call returned
    error,                  \* failure the call raised
    encoded,                \* argument of decodeHtmlEntities
    decoded,                \* value decodeHtmlEntities returned
    cleaned,                \* value cleanTranscript returned
    videoIds,               \* argument of processVideos
    v,                      \* position of the for-of loop in videoIds
    results,                \* the Map processVideos fills
    bpc,                    \* where processVideos stands
    caught,                 \* error the catch block of the current video holds
    thrown,                 \* positions whose try block threw
    apiKey,                 \* this.settings.openAIApiKey is set
    note,                   \* editor content: summary blocks per video URL
    runs,                   \* the runs of the summarize command
    events                  \* notices shown and editor writes, in order

plan == <<requestedTokens, numChunks, approximateChunkSize, currentPosition, chunks>>
loop == <<i, summaries>>
log == <<requests, responses, delays>>
decoder == <<encoded, decoded, cleaned>>
batch == <<videoIds, v, results, bpc, caught, thrown>>
command == <<apiKey, note, runs, events>>
vars == <<openai, maxTokens, pc, transcript, plan, loop, log, result, error, decoder, batch, command>>

Terminal == {"returned", "raised"}

\* the plugin after onload, before a call of summarizeTranscript
Loaded ==
    /\ openai = TRUE
    /\ maxTokens \in MaxTokensValues
    /\ pc = "idle"
    /\ transcript = [len |-> 0, terms |-> {}]
    /\ requestedTokens = Undefined
    /\ numChunks = 0
    /\ approximateChunkSize = 0
    /\ currentPosition = 0
    /\ chunks = <<>>
    /\ i = 0
    /\ summaries = <<>>
    /\ requests = <<>>
    /\ responses = <<>>
    /\ delays = 0
    /\ result = NoResult
    /\ error = NoError

\* decodeHtmlEntities or cleanTranscript has not returned
Undecoded == <<"undefined">>

\* processVideos is not running
NoBatch ==
    /\ videoIds = <<>>
    /\ v = 0
    /\ results = <<>>
    /\ bpc = "off"
    /\ caught = NoError
    /\ thrown = {}

Runs == 1..MaxRuns
\* a run of the command that has not been triggered
IdleRun == [pc |-> "idle", ids |-> <<>>, v |-> 0, sent |-> 0, caught |-> "none", recorded |-> {},
            content |-> <<>>, u |-> 0, reentrant |-> FALSE]

\* the summarize command is not in use
NoCommand ==
    /\ apiKey = TRUE
    /\ note = <<>>
    /\ runs = [r \in Runs |-> IdleRun]
    /\ events = <<>>

Init ==
    /\ Loaded
    /\ encoded = <<>>
    /\ decoded = Undecoded
    /\ cleaned = Undecoded
    /\ NoBatch
    /\ NoCommand

Raise(origin, kind) ==
    /\ pc' = "raised"
    /\ error' = [origin |-> origin, kind |-> kind]
    /\ result' = result

Return(text) ==
    /\ pc' = "returned"
    /\ result' = text
    /\ error' = error

\* the single-shot request
SingleRequest ==
    [kind |-> "single", idx |-> 0, input |-> <<>>, max_tokens |-> maxTokens]

\* summarizeTranscript up to its first await: the single-shot request
SummarizeTranscript(t) ==
    /\ pc = "idle"
    /\ transcript' = t
    /\ IF ~openai
       THEN /\ Raise("internal", "NotInitialized")
            /\ UNCHANGED requests
       ELSE /\ pc' = "awaitSingle"
            /\ requests' = Append(requests, SingleRequest)
            /\ UNCHANGED <<result, error>>
    /\ UNCHANGED <<command, batch, decoder, openai, maxTokens, plan, loop, responses, delays>>

\* completion.choices[0]?.message?.content || 'No summary available'
SingleShotSummary(c) == IF c = "" THEN "No summary available" ELSE c

InvalidSingleShot_inverted(s) ==
    ~(s = "No summary available" \/ IncludesPleaseProvide(s))
\* the placeholder test of the single-shot path
InvalidSingleShot(s) == s = "No summary available" \/ IncludesPleaseProvide(s)

IsCapacityExceeded_anyError(e) == e.kind \in {"tooLarge", "generic"}
\* error instanceof Error && error.message.includes('Request too large')
IsCapacityExceeded(e) == e.kind = "tooLarge"

\* what the inner try of summarizeTranscript throws on response r
SingleShotThrown(r) ==
    IF r.kind = "ok"
    THEN [origin |-> "internal", kind |-> "InvalidResponse"]
    ELSE [origin |-> "single", kind |-> r.kind]

\* error instanceof Error ? error : new Error('Unknown error ...')
Rethrown(e) ==
    IF e.kind = "nonError" THEN [origin |-> "internal", kind |-> "Unknown"] ELSE e

\* the single-shot response arrives; a capacity failure enters
\* recursiveSummarize, which runs up to its splitting loop
SingleShotResponse(r) ==
    /\ pc = "awaitSingle"
    /\ responses' = Append(responses, r)
    /\ IF r.kind = "ok" /\ ~InvalidSingleShot(SingleShotSummary(r.content))
       THEN /\ Return(SingleShotSummary(r.content))
            /\ UNCHANGED plan
       ELSE IF IsCapacityExceeded(SingleShotThrown(r))
       THEN IF ~openai
            THEN /\ Raise("internal", "NotInitialized")
                 /\ UNCHANGED plan
            ELSE /\ requestedTokens' = r.requested
                 /\ numChunks' = NumChunks(transcript.len, r.requested)
                 /\ approximateChunkSize' =
                       transcript.len \div NumChunks(transcript.len, r.requested)
                 /\ chunks' = <<>>
                 /\ currentPosition' = 0
                 /\ pc' = "split"
                 /\ UNCHANGED <<result, error>>
       ELSE /\ Raise(Rethrown(SingleShotThrown(r)).origin, Rethrown(SingleShotThrown(r)).kind)
            /\ UNCHANGED plan
    /\ UNCHANGED <<command, batch, decoder, openai, maxTokens, transcript, loop, requests, delays>>

\* one iteration of the splitting loop
SplitStep ==
    /\ pc = "split"
    /\ currentPosition < transcript.len
    /\ Len(chunks) < MaxChunks
    /\ LET endPosition == EndPosition(transcript, currentPosition, approximateChunkSize)
       IN  /\ chunks' = Append(chunks, [from |-> currentPosition, to |-> endPosition])
           /\ currentPosition' = endPosition
    /\ UNCHANGED <<command, batch, decoder, openai, maxTokens, pc, transcript, requestedTokens, numChunks,
                   approximateChunkSize, loop, log, result, error>>

ChunkMaxTokens_uncapped(m) == m \div 2
\* Math.min(2000, Math.floor(this.settings.maxTokens / 2))
ChunkMaxTokens(m) == Min(chunkTokenCeiling, m \div 2)

ChunkRequest(k) ==
    [kind |-> "chunk", idx |-> k, input |-> <<>>, max_tokens |-> ChunkMaxTokens(maxTokens)]
CombineRequest(s) ==
    [kind |-> "combine", idx |-> 0, input |-> s, max_tokens |-> maxTokens]

NeedsDelay_never(k) == FALSE
\* if (i > 0) await new Promise(resolve => setTimeout(resolve, 2000))
NeedsDelay(k) == k > 0

\* the head of the body of the chunk loop for chunk k, up to its first await
StartChunk(k) ==
    IF NeedsDelay(k)
    THEN /\ pc' = "pacing"
         /\ requests' = requests
    ELSE /\ pc' = "awaitChunk"
         /\ requests' = Append(requests, ChunkRequest(k))

NoSummaries_never(s) == FALSE
\* summaries.length === 0
NoSummaries(s) == Len(s) = 0

\* the code after the chunk loop, up to the final combine request
AfterChunks(s) ==
    IF NoSummaries(s)
    THEN /\ Raise("internal", "NoChunkSummaries")
         /\ requests' = requests
    ELSE /\ pc' = "awaitCombine"
         /\ requests' = Append(requests, CombineRequest(s))
         /\ UNCHANGED <<result, error>>

\* the splitting loop ends; the chunk loop starts with the request of chunk 0
SplitDone ==
    /\ pc = "split"
    /\ ~(currentPosition < transcript.len)
    /\ i' = 0
    /\ summaries' = <<>>
    /\ IF 0 < Len(chunks)
       THEN /\ StartChunk(0)
            /\ UNCHANGED <<result, error>>
       ELSE AfterChunks(<<>>)
    /\ UNCHANGED <<command, batch, decoder, openai, maxTokens, transcript, plan, responses, delays>>

KeepSummary_always(s) == TRUE
\* if (summary)
KeepSummary(s) == s # ""

NextChunkIndex_break(k, n, failed) == IF failed THEN n ELSE k + 1
\* i++, also after the catch block ('continue')
NextChunkIndex(k, n, failed) == k + 1

\* the response of chunk i arrives
ChunkResponse(r) ==
    /\ pc = "awaitChunk"
    /\ responses' = Append(responses, r)
    /\ LET s == IF r.kind = "ok" /\ KeepSummary(r.content)
                THEN Append(summaries, r.content) ELSE summaries
           next == NextChunkIndex(i, Len(chunks), r.kind # "ok")
       IN  /\ summaries' = s
           /\ i' = next
           /\ IF next < Len(chunks)
              THEN /\ StartChunk(next)
                   /\ UNCHANGED <<result, error>>
              ELSE AfterChunks(s)
    /\ UNCHANGED <<command, batch, decoder, openai, maxTokens, transcript, plan, delays>>

\* the pacing delay before chunk i > 0 elapses and the chunk is requested
PacingDelay ==
    /\ pc = "pacing"
    /\ delays' = delays + 1
    /\ requests' = Append(requests, ChunkRequest(i))
    /\ pc' = "awaitChunk"
    /\ UNCHANGED <<command, batch, decoder, openai, maxTokens, transcript, plan, loop, responses, result, error>>

\* completion.choices[0]?.message?.content || 'Failed to generate summary'
FinalSummary(c) == IF c = "" THEN "Failed to generate summary" ELSE c
InvalidFinal(s) == s = "Failed to generate summary"

\* the response of the final combine request arrives
CombineResponse(r) ==
    /\ pc = "awaitCombine"
    /\ responses' = Append(responses, r)
    /\ IF r.kind = "ok"
       THEN IF InvalidFinal(FinalSummary(r.content))
            THEN Raise("internal", "FinalSummaryFailed")
            ELSE Return(FinalSummary(r.content))
       ELSE Raise(Rethrown([origin |-> "combine", kind |-> r.kind]).origin,
                  Rethrown([origin |-> "combine", kind |-> r.kind]).kind)
    /\ UNCHANGED <<command, batch, decoder, openai, maxTokens, transcript, plan, loop, requests, delays>>

Next ==
    \/ \E t \in Transcripts : SummarizeTranscript(t)
    \/ \E r \in Responses : SingleShotResponse(r)
    \/ SplitStep
    \/ SplitDone
    \/ \E r \in ChunkResponses : ChunkResponse(r)
    \/ PacingDelay
    \/ \E r \in CombineResponses : CombineResponse(r)

Spec == Init /\ [][Next]_vars

\* decodeHtmlEntities is called on a text of DecodeInputs
DecodeInit ==
    /\ Loaded
    /\ encoded \in DecodeInputs
    /\ decoded = Undecoded
    /\ cleaned = Undecoded
    /\ NoBatch
    /\ NoCommand

\* the call of decodeHtmlEntities returns
DecodeHtmlEntities ==
    /\ decoded = Undecoded
    /\ decoded' = decodeHtmlEntities(encoded)
    /\ UNCHANGED <<command, batch, encoded, cleaned, openai, maxTokens, pc, transcript, plan, loop, log, result, error>>

DecodeSpec == DecodeInit /\ [][DecodeHtmlEntities]_vars

\* cleanTranscript is called on a text of CleanInputs
CleanInit ==
    /\ Loaded
    /\ encoded \in CleanInputs
    /\ decoded = Undecoded
    /\ cleaned = Undecoded
    /\ NoBatch
    /\ NoCommand

\* the call of cleanTranscript returns; it has decoded the text first
CleanTranscript ==
    /\ cleaned = Undecoded
    /\ decoded' = decodeHtmlEntities(encoded)
    /\ cleaned' = cleanTranscript(encoded)
    /\ UNCHANGED <<command, batch, encoded, openai, maxTokens, pc, transcript, plan, loop, log, result, error>>

CleanSpec == CleanInit /\ [][CleanTranscript]_vars

(***************************************************************************)
(* processVideos.                                                          *)
(***************************************************************************)
\* extractAllVideoIds returns distinct ids; the id at position k is k
Batches == { [k \in 1..n |-> k] : n \in 0..MaxVideos }

\* cleaned transcripts, service answers and fetch failures of a batch
BatchTranscripts ==
    { [len |-> 0, terms |-> {}],
      [len |-> MaxShortLen, terms |-> {}],
      [len |-> LongLen, terms |-> {}],
      [len |-> LongLen, terms |-> {30, 130}] }
BatchResponses ==
    { Ok("s1"), Ok(""), Err("generic", Undefined), Err("nonError", Undefined),
      Err("tooLarge", Undefined), Err("tooLarge", 2 * tokenLimit + 1) }
BatchChunkResponses == { Ok("s1"), Ok(""), Err("generic", Undefined) }
BatchCombineResponses == { Ok("s2"), Err("generic", Undefined) }
FetchErrors == {"generic", "nonError"}

NoTranscript == [len |-> 0, terms |-> {}]
ErrorPrefix == "Error fetching transcript: "

\* error instanceof Error ? error.message : 'Unknown error'
ErrorMessage(e) == IF e.kind = "nonError" THEN "Unknown error" ELSE e.kind

\* the entry the try block records
ResultEntry(summary, t) ==
    [title |-> "title", summary |-> [prefix |-> "", message |-> summary], transcript |-> t]
\* the entry the catch block records
PlaceholderEntry(e) ==
    [title |-> "title",
     summary |-> [prefix |-> ErrorPrefix, message |-> ErrorMessage(e)],
     transcript |-> NoTranscript]

\* results.set(videoId, entry)
MapSet(m, id, entry) ==
    [x \in DOMAIN m \cup {id} |-> IF x = id THEN entry ELSE m[x]]

BatchInit ==
    /\ Loaded
    /\ encoded = <<>>
    /\ decoded = Undecoded
    /\ cleaned = Undecoded
    /\ videoIds \in Batches
    /\ v = 1
    /\ results = <<>>
    /\ bpc = "loop"
    /\ caught = NoError
    /\ thrown = {}
    /\ NoCommand

\* the loop takes the next video id and awaits getVideoTitle
BeginVideo ==
    /\ bpc = "loop"
    /\ v <= Len(videoIds)
    /\ bpc' = "title"
    /\ UNCHANGED <<videoIds, v, results, caught, thrown>>
    /\ UNCHANGED <<command, decoder, openai, maxTokens, pc, transcript, plan, loop, log, result, error>>

\* getVideoTitle returns, it never throws; fetchTranscript is awaited
TitleFetched ==
    /\ bpc = "title"
    /\ bpc' = "captions"
    /\ UNCHANGED <<videoIds, v, results, caught, thrown>>
    /\ UNCHANGED <<command, decoder, openai, maxTokens, pc, transcript, plan, loop, log, result, error>>

\* fetchTranscript returns and the caption texts are joined and cleaned to t;
\* the call of summarizeTranscript that follows starts with fresh locals
TranscriptFetched(t) ==
    /\ bpc = "captions"
    /\ bpc' = "summary"
    /\ pc' = "idle"
    /\ transcript' = t
    /\ requestedTokens' = Undefined
    /\ numChunks' = 0
    /\ approximateChunkSize' = 0
    /\ currentPosition' = 0
    /\ chunks' = <<>>
    /\ i' = 0
    /\ summaries' = <<>>
    /\ requests' = <<>>
    /\ responses' = <<>>
    /\ delays' = 0
    /\ result' = NoResult
    /\ error' = NoError
    /\ UNCHANGED <<videoIds, v, results, caught, thrown>>
    /\ UNCHANGED <<command, decoder, openai, maxTokens>>

\* fetchTranscript throws; the catch block awaits getVideoTitle
FetchFailed(k) ==
    /\ bpc = "captions"
    /\ bpc' = "placeholder"
    /\ caught' = [origin |-> "fetch", kind |-> k]
    /\ thrown' = thrown \cup {v}
    /\ UNCHANGED <<videoIds, v, results>>
    /\ UNCHANGED <<command, decoder, openai, maxTokens, pc, transcript, plan, loop, log, result, error>>

\* summarizeTranscript(cleanedTranscript) is called
CallSummarize ==
    /\ bpc = "summary"
    /\ SummarizeTranscript(transcript)

SummaryAwaited_floating == TRUE
\* await this.summarizeTranscript(...): the loop goes on once the call has ended
SummaryAwaited == pc \in Terminal

\* summarizeTranscript returns: the entry of the video is recorded
SummaryReturned ==
    /\ bpc = "summary"
    /\ pc \notin {"idle", "raised"}
    /\ SummaryAwaited
    /\ results' = MapSet(results, videoIds[v], ResultEntry(result, transcript))
    /\ v' = v + 1
    /\ bpc' = "loop"
    /\ UNCHANGED <<videoIds, caught, thrown>>
    /\ UNCHANGED <<command, decoder, openai, maxTokens, pc, transcript, plan, loop, log, result, error>>

\* summarizeTranscript throws; the catch block awaits getVideoTitle
SummaryThrown ==
    /\ bpc = "summary"
    /\ pc = "raised"
    /\ bpc' = "placeholder"
    /\ caught' = error
    /\ thrown' = thrown \cup {v}
    /\ UNCHANGED <<videoIds, v, results>>
    /\ UNCHANGED <<command, decoder, openai, maxTokens, pc, transcript, plan, loop, log, result, error>>

\* getVideoTitle returns in the catch block: the placeholder is recorded
PlaceholderRecorded ==
    /\ bpc = "placeholder"
    /\ results' = MapSet(results, videoIds[v], PlaceholderEntry(caught))
    /\ v' = v + 1
    /\ bpc' = "loop"
    /\ caught' = NoError
    /\ UNCHANGED <<videoIds, thrown>>
    /\ UNCHANGED <<command, decoder, openai, maxTokens, pc, transcript, plan, loop, log, result, error>>

\* the loop is over: processVideos returns results
BatchReturn ==
    /\ bpc = "loop"
    /\ v > Len(videoIds)
    /\ bpc' = "done"
    /\ UNCHANGED <<videoIds, v, results, caught, thrown>>
    /\ UNCHANGED <<command, decoder, openai, maxTokens, pc, transcript, plan, loop, log, result, error>>

BatchNext ==
    \/ BeginVideo
    \/ TitleFetched
    \/ \E t \in BatchTranscripts : TranscriptFetched(t)
    \/ \E k \in FetchErrors : FetchFailed(k)
    \/ CallSummarize
    \/ \E r \in BatchResponses : SingleShotResponse(r)
    \/ SplitStep
    \/ SplitDone
    \/ \E r \in BatchChunkResponses : ChunkResponse(r)
    \/ PacingDelay
    \/ \E r \in BatchCombineResponses : CombineResponse(r)
    \/ SummaryReturned
    \/ SummaryThrown
    \/ PlaceholderRecorded
    \/ BatchReturn

BatchSpec == BatchInit /\ [][BatchNext]_vars

\* every awaited call ends and every step of the code is taken
FairBatchSpec == BatchSpec /\ WF_vars(BatchNext)

(***************************************************************************)
(* The summarize command: editorCallback, summarizeYouTubeVideos and        *)
(* updateNote.  Several runs of the command may be under way at once; each  *)
(* has its own locals.  The requests of a video's summarization are         *)
(* followed one by one, their contents are not.                             *)
(***************************************************************************)
\* the notes: the URLs of the videos 1..n, no summary block yet
Notes == { [id \in 1..n |-> 0] : n \in 0..MaxVideos }

\* extractAllVideoIds(editor.getValue()): the block of a video holds its URL
ExtractAllVideoIds(content) == [k \in 1..Len(content) |-> k]

Event(r, kind) == [run |-> r, kind |-> kind]

CommandInit ==
    /\ Loaded
    /\ encoded = <<>>
    /\ decoded = Undecoded
    /\ cleaned = Undecoded
    /\ NoBatch
    /\ apiKey \in BOOLEAN
    /\ note \in Notes
    /\ runs = [r \in Runs |-> IdleRun]
    /\ events = <<>>

SummarizerIdle ==
    UNCHANGED <<batch, decoder, openai, maxTokens, pc, transcript, plan, loop, log, result, error>>

\* run r goes on to state x, logging the events es
Continue(r, x, es) ==
    /\ runs' = [runs EXCEPT ![r] = x]
    /\ events' = events \o es
    /\ UNCHANGED <<apiKey, note>>
    /\ SummarizerIdle

\* the command is triggered: the handler runs up to the first await of
\* processVideos
Trigger(r) ==
    /\ runs[r].pc = "idle"
    /\ IF ~apiKey
       THEN Continue(r, [runs[r] EXCEPT !.pc = "done"], <<Event(r, "noKey")>>)
       ELSE IF Len(ExtractAllVideoIds(note)) = 0
       THEN Continue(r, [runs[r] EXCEPT !.pc = "done"], <<Event(r, "noUrls")>>)
       ELSE Continue(r,
                [runs[r] EXCEPT !.pc = "title", !.ids = ExtractAllVideoIds(note), !.v = 1,
                                !.reentrant = \E q \in Runs : runs[q].pc \notin {"idle", "done"}],
                <<Event(r, "processing")>>)

\* getVideoTitle returns; fetchTranscript is awaited
RunTitleFetched(r) ==
    /\ runs[r].pc = "title"
    /\ Continue(r, [runs[r] EXCEPT !.pc = "captions"], <<>>)

\* fetchTranscript returns; summarizeTranscript issues its first request
RunTranscriptFetched(r) ==
    /\ runs[r].pc = "captions"
    /\ Continue(r, [runs[r] EXCEPT !.pc = "summarizing", !.sent = 1], <<>>)

\* fetchTranscript throws; the catch block awaits getVideoTitle
RunFetchFailed(r) ==
    /\ runs[r].pc = "captions"
    /\ Continue(r, [runs[r] EXCEPT !.pc = "placeholder", !.caught = "fetchTranscript"], <<>>)

\* the request in flight is answered and summarizeTranscript issues another
RunNextRequest(r) ==
    /\ runs[r].pc = "summarizing"
    /\ runs[r].sent < MaxRequestsPerVideo
    /\ Continue(r, [runs[r] EXCEPT !.sent = @ + 1], <<>>)

\* the request in flight is answered and summarizeTranscript throws
RunSummaryThrown(r) ==
    /\ runs[r].pc = "summarizing"
    /\ Continue(r, [runs[r] EXCEPT !.pc = "placeholder", !.sent = 0,
                                    !.caught = "summarizeTranscript"], <<>>)

\* the entry of the current video is recorded.  After the last video
\* processVideos returns and the handler calls updateNote, which reads the
\* editor and runs up to the first await of createTranscriptNote; the handler
\* calls it without await and shows the success notice
VideoRecorded(r) ==
    LET x == [runs[r] EXCEPT !.recorded = @ \cup {runs[r].ids[runs[r].v]},
                             !.sent = 0, !.caught = "none"]
    IN  IF runs[r].v < Len(runs[r].ids)
        THEN Continue(r, [x EXCEPT !.pc = "title", !.v = @ + 1], <<>>)
        ELSE Continue(r, [x EXCEPT !.pc = "updating", !.content = note, !.u = 1],
                      <<Event(r, "success")>>)

\* the request in flight is answered and summarizeTranscript returns
RunSummaryReturned(r) ==
    /\ runs[r].pc = "summarizing"
    /\ VideoRecorded(r)

\* getVideoTitle returns in the catch block: the placeholder is recorded
RunPlaceholderRecorded(r) ==
    /\ runs[r].pc = "placeholder"
    /\ VideoRecorded(r)

\* createTranscriptNote returns: the block of the video is put into content;
\* after the last video the content is written to the editor
TranscriptNoteCreated(r) ==
    LET id == runs[r].ids[runs[r].u]
        content == [runs[r].content EXCEPT ![id] = @ + 1]
    IN  /\ runs[r].pc = "updating"
        /\ IF runs[r].u < Len(runs[r].ids)
           THEN Continue(r, [runs[r] EXCEPT !.content = content, !.u = @ + 1], <<>>)
           ELSE /\ runs' = [runs EXCEPT ![r] = [@ EXCEPT !.content = content, !.pc = "done"]]
                /\ note' = content
                /\ events' = events \o <<Event(r, "setValue")>>
                /\ UNCHANGED apiKey
                /\ SummarizerIdle

\* createTranscriptNote throws (the folder cannot be created): updateNote
\* ends without writing to the editor and nothing handles its rejection
TranscriptNoteFailed(r) ==
    /\ runs[r].pc = "updating"
    /\ Continue(r, [runs[r] EXCEPT !.pc = "done"], <<Event(r, "unhandledRejection")>>)

CommandNext ==
    \E r \in Runs :
        \/ Trigger(r)
        \/ RunTitleFetched(r)
        \/ RunTranscriptFetched(r)
        \/ RunFetchFailed(r)
        \/ RunNextRequest(r)
        \/ RunSummaryThrown(r)
        \/ RunSummaryReturned(r)
        \/ RunPlaceholderRecorded(r)
        \/ TranscriptNoteCreated(r)
        \/ TranscriptNoteFailed(r)

CommandSpec == CommandInit /\ [][CommandNext]_vars

\* every awaited request is answered and every step of the code is taken
FairSpec == Spec /\ WF_vars(Next)

TypeOK ==
    /\ openai \in BOOLEAN
    /\ maxTokens \in MaxTokensValues
    /\ pc \in {"idle", "awaitSingle", "split", "awaitChunk", "pacing", "awaitCombine"} \cup Terminal
    /\ transcript \in Transcripts
    /\ requestedTokens \in Hints
    /\ Len(chunks) <= MaxChunks
    /\ i \in 0..MaxChunks
    /\ Len(summaries) <= Len(chunks)
    /\ Len(responses) <= Len(requests)
    /\ delays \in 0..MaxChunks

(***************************************************************************)
(* Vocabulary of the properties.  Requests are answered one at a time, so  *)
(* responses[j] is the answer to requests[j].                              *)
(***************************************************************************)
SeqRange(s) == { s[j] : j \in 1..Len(s) }
Answered(kind) == { j \in 1..Len(responses) : requests[j].kind = kind }
Issued(kind) == { j \in 1..Len(requests) : requests[j].kind = kind }
Failed(r) == r.kind # "ok"
NonEmptyOk(r) == r.kind = "ok" /\ r.content # ""
CapacityExceeded(r) == r.kind = "tooLarge"
\* the contents the single-shot path rejects as placeholders
Placeholder(c) == c \in {"No summary available", "Please provide the video transcript"}
Usable(r) == NonEmptyOk(r) /\ ~Placeholder(r.content)

SingleShotAnswered == Len(responses) >= 1
InChunkedPath == pc \in {"split", "awaitChunk", "pacing", "awaitCombine"} \/ Len(requests) > 1
\* the chunk loop has run to its end
ChunkLoopDone ==
    /\ SingleShotAnswered
    /\ CapacityExceeded(responses[1])
    /\ pc \in {"awaitCombine", "returned", "raised"}
\* indices of the chunk requests, in the order they were issued
ChunkRequestOrder ==
    LET q == SelectSeq(requests, LAMBDA x : x.kind = "chunk")
    IN  [j \in 1..Len(q) |-> q[j].idx]
\* contents of the chunk responses that carried a summary, in chunk order
RECURSIVE GoodContents(_)
GoodContents(j) ==
    IF j > Len(responses) \/ requests[j].kind # "chunk" THEN <<>>
    ELSE IF NonEmptyOk(responses[j]) THEN <<responses[j].content>> \o GoodContents(j + 1)
    ELSE GoodContents(j + 1)
LastResponse == responses[Len(responses)]
CombineAnswered == Answered("combine") # {}

\* C1: if the first request reports capacity-exceeded and every later request
\* succeeds with non-empty content, the call ends by returning the content of
\* the final combine request; it never fails.
C1_FallbackReturnsCombine ==
    ( /\ pc \in Terminal
      /\ SingleShotAnswered
      /\ CapacityExceeded(responses[1])
      /\ \A j \in 2..Len(responses) : NonEmptyOk(responses[j]) )
    => ( /\ pc = "returned"
         /\ CombineAnswered
         /\ result = LastResponse.content )

\* C2: when the first request returns non-empty, non-placeholder content, the
\* call returns exactly that content after exactly one request: no chunk is
\* planned or requested, no pacing delay elapses, no combine request is made.
C2_SingleShotSuccess ==
    (SingleShotAnswered /\ Usable(responses[1]))
    => ( /\ pc = "returned"
         /\ result = responses[1].content
         /\ Len(requests) = 1
         /\ chunks = <<>>
         /\ delays = 0 )
C2_Witness ==
    /\ pc = "returned"
    /\ responses = <<Ok("s1")>>
    /\ result = "s1"
    /\ transcript.len = LongLen

\* C3: the chunked path is entered only after a capacity-exceeded failure of
\* the single-shot request; after any other single-shot failure (an error,
\* empty content, placeholder content) the call has failed with one request
\* issued and nothing planned.
C3_ChunkingOnlyOnCapacity ==
    /\ InChunkedPath => (SingleShotAnswered /\ CapacityExceeded(responses[1]))
    /\ ( /\ SingleShotAnswered
         /\ ~CapacityExceeded(responses[1])
         /\ ~Usable(responses[1]) )
       => (pc = "raised" /\ Len(requests) = 1 /\ chunks = <<>> /\ result = NoResult)
C3_Witness ==
    /\ pc = "raised"
    /\ responses = <<Err("generic", Undefined)>>
    /\ error = [origin |-> "single", kind |-> "generic"]
    /\ Len(requests) = 1

\* C4: the chunk requests issued are chunks 0, 1, 2, ... in this order, each
\* once, and after the chunk loop all of chunks are requested whichever
\* of them failed; if one of them answered with non-empty content the combine
\* request is issued, and when that one answers with a usable summary the
\* call returns it.
C4_PartialFailureTolerance ==
    /\ ChunkRequestOrder = [j \in 1..Len(ChunkRequestOrder) |-> j - 1]
    /\ ChunkLoopDone => Len(ChunkRequestOrder) = Len(chunks)
    /\ (ChunkLoopDone /\ \E j \in Answered("chunk") : NonEmptyOk(responses[j]))
       => Cardinality(Issued("combine")) = 1
    /\ (CombineAnswered /\ NonEmptyOk(LastResponse)
            /\ LastResponse.content # "Failed to generate summary")
       => (pc = "returned" /\ result = LastResponse.content)
C4_Witness ==
    /\ pc = "returned"
    /\ Len(chunks) = 3
    /\ Len(responses) = 5
    /\ NonEmptyOk(responses[2])
    /\ Failed(responses[3])
    /\ NonEmptyOk(responses[4])

\* C5: the input of the combine request is the sequence of the summaries of
\* the chunks answered with non-empty content, in chunk order, nothing else.
C5_CombineInput ==
    \A j \in Issued("combine") : requests[j].input = GoodContents(2)
C5_Witness ==
    /\ Issued("combine") # {}
    /\ Len(chunks) = 3
    /\ responses[2] = Ok("s2")
    /\ responses[3] = Ok("")
    /\ responses[4] = Ok("s1")
    /\ summaries = <<"s2", "s1">>

\* C6: when no chunk request produced a summary the chunked path fails and
\* the combine request is never issued.
C6_AllChunksFailed ==
    (ChunkLoopDone /\ \A j \in Answered("chunk") : ~NonEmptyOk(responses[j]))
    => ( /\ pc = "raised"
         /\ error = [origin |-> "internal", kind |-> "NoChunkSummaries"]
         /\ Issued("combine") = {}
         /\ result = NoResult )
C6_Witness ==
    /\ pc = "raised"
    /\ Len(chunks) = 2
    /\ Len(responses) = 3
    /\ Failed(responses[2])
    /\ responses[3] = Ok("")

\* C7: if the combine request fails, or returns empty content, or returns
\* placeholder content, the call fails and returns no summary text.
C7_CombineFailure ==
    ( /\ CombineAnswered
      /\ \/ Failed(LastResponse)
         \/ LastResponse.content = ""
         \/ Placeholder(LastResponse.content)
         \/ LastResponse.content = "Failed to generate summary" )
    => (pc = "raised" /\ result = NoResult)

\* A splitting loop that has filled the followed part of chunks and is still
\* running repeats one and the same iteration: endPosition = currentPosition,
\* so the code keeps pushing '' and never leaves the loop.
StuckLoopIsFixpoint ==
    (pc = "split" /\ Len(chunks) = MaxChunks /\ currentPosition < transcript.len)
    => EndPosition(transcript, currentPosition, approximateChunkSize) = currentPosition

\* C8: when every request fails, the call ends by raising an error and never
\* returns a summary.
AllRequestsFailed == \A j \in 1..Len(responses) : Failed(responses[j])
C8_TotalFailure ==
    /\ [](AllRequestsFailed => pc # "returned")
    /\ <>(pc = "raised" \/ ~AllRequestsFailed)

\* C9: the failure the call raises is never a capacity-exceeded failure of a
\* request (single-shot, chunk or combine) nor the failure of a chunk request.
C9_RecoverableNeverEscapes ==
    pc = "raised" => (error.kind # "tooLarge" /\ error.origin # "chunk")

\* C10: every iteration of the splitting loop moves currentPosition strictly
\* forward (so the loop ends and the call reaches a terminal state).
C10_SplitAdvances ==
    [][SplitStep => currentPosition' > currentPosition]_vars

(***************************************************************************)
(* The chunk planner: the splitting loop of recursiveSummarize.            *)
(***************************************************************************)
\* the splitting loop has ended
SplitEnded ==
    /\ SingleShotAnswered
    /\ CapacityExceeded(responses[1])
    /\ pc # "split"
\* the even-split point of chunk k: endPosition before the boundary search
EvenSplit(k) == Min(chunks[k].from + approximateChunkSize, transcript.len)
\* b lies right behind a sentence terminator and its whitespace
AfterTerminator(t, b) ==
    \E p \in MatchStarts(t, 0, t.len) :
        p + 2 <= b /\ b <= p + 1 + SpaceRun(t, p + 1, t.len)
\* the terminators of the text within 100 characters around position e
TerminatorsAround(t, e) ==
    MatchStarts(t, Max(e - searchWindow, 0), Min(e + searchWindow, t.len))

\* C11: the spans [currentPosition, endPosition) the planner emits are
\* ordered, contiguous and non-overlapping, start at 0 and end at the text
\* length, so that their concatenation is the text.
C11_ChunkReconstruction ==
    /\ \A k \in 1..Len(chunks) : chunks[k].from <= chunks[k].to
    /\ \A k \in 1..(Len(chunks) - 1) : chunks[k].to = chunks[k + 1].from
    /\ Len(chunks) > 0 => chunks[1].from = 0
    /\ (SplitEnded /\ Len(chunks) > 0) => chunks[Len(chunks)].to = transcript.len
    /\ (SplitEnded /\ Len(chunks) = 0) => transcript.len = 0

\* C12: the planner emits at least one chunk for any text, the empty text
\* included.
C12_AtLeastOneChunk ==
    SplitEnded => Len(chunks) >= 1

\* C13: every chunk boundary but the end of the text lies right behind a
\* sentence terminator when one exists within 100 characters before to 100
\* characters after the even-split point, and is the even-split point
\* otherwise.
C13_BoundarySnapping ==
    \A k \in 1..Len(chunks) :
        EvenSplit(k) < transcript.len =>
            IF TerminatorsAround(transcript, EvenSplit(k)) # {}
            THEN AfterTerminator(transcript, chunks[k].to)
            ELSE chunks[k].to = EvenSplit(k)

\* C14: the number of chunks emitted and requested is at least
\* ceil(R / 12000) when the single-shot failure reported R tokens, and at
\* least ceil((length / 4) / 12000) in every case.
C14_ChunkCountLowerBound ==
    ChunkLoopDone =>
        /\ Len(chunks) = Cardinality(Issued("chunk"))
        /\ Len(chunks) >= CeilDiv(transcript.len, charsPerToken * tokenLimit)
        /\ requestedTokens # Undefined =>
               Len(chunks) >= CeilDiv(requestedTokens, tokenLimit)

\* C15: the planner emits exactly numChunks chunks: the remainder of the
\* division of the text length by numChunks makes no additional chunk.
C15_NoExtraChunk ==
    SplitEnded => Len(chunks) = numChunks

\* C16: in the chunked path one pacing delay elapses before the request of
\* every chunk after the first, whether or not the chunk before it failed,
\* and none before the request of the first chunk.
C16_Pacing ==
    /\ delays = Cardinality({ j \in Issued("chunk") : requests[j].idx > 0 })
    /\ pc = "pacing" => (i > 0 /\ Cardinality(Issued("chunk")) = i)
    /\ \A j \in Issued("chunk") : requests[j].idx = 0 => j = 2
C16_Witness ==
    /\ pc = "awaitChunk"
    /\ i = 2
    /\ delays = 2
    /\ Failed(responses[2])
    /\ Failed(responses[3])

\* C19: every chunk request asks for at most min(2000, floor(maxTokens / 2))
\* output tokens; the single-shot request and the combine request ask for
\* maxTokens.
C19_OutputBudgets ==
    \A j \in 1..Len(requests) :
        IF requests[j].kind = "chunk"
        THEN /\ requests[j].max_tokens <= 2000
             /\ 2 * requests[j].max_tokens <= maxTokens
        ELSE requests[j].max_tokens = maxTokens
C19_Witness ==
    /\ maxTokens = 5000
    /\ Issued("combine") # {}
    /\ \E j \in Issued("chunk") : requests[j].max_tokens = 2000

(***************************************************************************)
(* Properties of processVideos.                                            *)
(***************************************************************************)
InFlight == Len(requests) - Len(responses)
Recorded == DOMAIN results
IsPlaceholder(e) == e.summary.prefix = ErrorPrefix /\ e.transcript = NoTranscript
BatchComplete ==
    /\ Recorded = SeqRange(videoIds)
    /\ \A k \in thrown : IsPlaceholder(results[videoIds[k]])

\* What processVideos has recorded when it returns is complete: one entry for
\* every video id, a placeholder for every video whose try block threw.
ReturnedBatchIsComplete == bpc = "done" => BatchComplete

\* A batch ends unless the splitting loop of one of its videos runs forever.
BatchEndsUnlessStuck ==
    \/ <>(bpc = "done")
    \/ <>[](pc = "split" /\ Len(chunks) = MaxChunks)

\* C17: processVideos ends, and it ends with one result entry for every input
\* video id, a placeholder for every video whose caption fetch or
\* summarization failed; the later videos of the batch are processed.
C17_BatchFailureIsolation ==
    /\ <>(bpc = "done")
    /\ [](bpc = "done" => BatchComplete)

\* C18: at most one request to the summarization service is in flight, and
\* only within the summarization of the current video; while video v is
\* processed, the entries of exactly the videos before it are recorded, so the
\* first request of a video follows the recording of the previous video.
C18_SequentialProcessing ==
    /\ InFlight \in {0, 1}
    /\ InFlight = 1 => (bpc = "summary" /\ pc \in {"awaitSingle", "awaitChunk", "awaitCombine"})
    /\ bpc \in {"title", "captions", "summary", "placeholder"} =>
          Recorded = { videoIds[k] : k \in 1..(v - 1) }
C18_Witness ==
    /\ bpc = "summary"
    /\ v = 2
    /\ IsPlaceholder(results[videoIds[1]])
    /\ pc = "awaitChunk"
    /\ i = 1
    /\ InFlight = 1

\* C20: decodeHtmlEntities resolves the doubly-escaped apostrophe and quote
\* references "&amp;#39;", "&amp;apos;", "&amp;#x27;" and "&amp;quot;" to the
\* literal character once the call has returned, also between other characters.
NestedApostrophes == { <<"&", "a", "m", "p", ";", "#", "3", "9", ";">>, <<"&", "a", "m", "p", ";", "a", "p", "o", "s", ";">>, <<"&", "a", "m", "p", ";", "#", "x", "2", "7", ";">> }
NestedQuotes == { <<"&", "a", "m", "p", ";", "q", "u", "o", "t", ";">> }
Plain == { <<>>, <<"a">>, <<";">> }
C20_NestedDecoding ==
    decoded # Undecoded =>
    \A a \in Plain, b \in Plain :
        /\ \A n \in NestedApostrophes : encoded = a \o n \o b => decoded = a \o <<"'">> \o b
        /\ \A n \in NestedQuotes : encoded = a \o n \o b => decoded = a \o <<"\"">> \o b
C20_Witness ==
    /\ encoded = <<"&", "a", "m", "p", ";", "#", "3", "9", ";">>
    /\ decoded = <<"'">>

\* length of the text of chunk k as it is sent to the service
ChunkLength(k) == TrimmedLength(transcript, chunks[k].from, chunks[k].to)
ChunkBudget == tokenLimit * charsPerToken

\* C23: every chunk sent to the service has at most 12000 * 4 = 48000
\* characters, also after its boundary was moved to a sentence terminator.
C23_ChunkSizeBound ==
    \A j \in Issued("chunk") : ChunkLength(requests[j].idx + 1) <= ChunkBudget

\* C23, amended: every chunk sent to the service has at most 48000 + 100
\* characters: the boundary search moves the end of a chunk at most 100
\* characters behind the even-split point.
C23_ChunkSizeBoundAmended ==
    \A j \in Issued("chunk") : ChunkLength(requests[j].idx + 1) <= ChunkBudget + 100
C23_Witness ==
    \E j \in Issued("chunk") :
        /\ chunks[requests[j].idx + 1].to > EvenSplit(requests[j].idx + 1)
        /\ ChunkLength(requests[j].idx + 1) > ChunkBudget

(***************************************************************************)
(* Properties of cleanTranscript.                                          *)
(***************************************************************************)
\* a word of s is immediately followed by the same word, whatever the case,
\* with at most one punctuation mark between them
HasRepeatedWord(s) == \E k \in 1..Len(s) : RepeatLen(s, k) > 0
\* a filler word or phrase stands in s as a whole word or phrase
HasFiller(s) == \E k \in 1..Len(s) : FillersAt(s, k) # {}

\* C21: the text cleanTranscript returns holds no word immediately followed
\* by the same word: every run of adjacent duplicate words is collapsed to one
\* occurrence.
C21_StutterCollapse ==
    cleaned # Undecoded => ~HasRepeatedWord(cleaned)

\* C22: the text cleanTranscript returns holds none of the filler words or
\* phrases as a whole word or phrase, also where the words of a phrase became
\* adjacent by the removal of another filler.
C22_FillerRemoval ==
    cleaned # Undecoded => ~HasFiller(cleaned)

(***************************************************************************)
(* Properties of the summarize command.                                    *)
(***************************************************************************)
EventsOf(r, kind) == { j \in 1..Len(events) : events[j] = Event(r, kind) }
\* runs that have a request for the transcript of video id in flight
Requesting(id) ==
    { r \in Runs : runs[r].pc = "summarizing" /\ runs[r].ids[runs[r].v] = id }

\* C24: the success notice of a run is shown only after updateNote has
\* written the summaries to the editor, and a run whose updateNote failed
\* shows the error notice and no success notice.
C24_CompletionOrdering ==
    \A r \in Runs :
        /\ \A j \in EventsOf(r, "success") : \E w \in EventsOf(r, "setValue") : w < j
        /\ (runs[r].pc = "done" /\ runs[r].u > 0 /\ EventsOf(r, "setValue") = {}) =>
              (EventsOf(r, "failure") # {} /\ EventsOf(r, "success") = {})

\* C25: when the command was triggered again while an earlier run was still
\* processing, no two requests for the transcript of the same video are in
\* flight at once and the note holds the summary block of every video once.
C25_Reentrancy ==
    (\E r \in Runs : runs[r].reentrant) =>
        \A id \in DOMAIN note :
            /\ Cardinality(Requesting(id)) <= 1
            /\ note[id] <= 1

====
